---- MODULE Spec2Model ----
(***************************************************************************)
(* Model of the medical literature search front end:                       *)
(*   app.py                       the Flask handlers search / api_search   *)
(*   services/parallel_search.py  ParallelSearchService                    *)
(*   services/openai_service.py   OpenAIService                            *)
(*                                                                         *)
(* Text that the code inspects character by character (queries, URLs,      *)
(* result content) is a sequence of one-character strings.  Text that the  *)
(* code only passes along or compares as a whole (titles, labels, flash    *)
(* and exception messages) is a TLA+ string.                               *)
(***************************************************************************)
EXTENDS Integers, Sequences, FiniteSets, TLC

VARIABLES
    parallel_api_key,   \* ParallelSearchService.api_key is non-empty
    openai_client,      \* OpenAIService.client is not None
    pc,                 \* position of the request being handled
    flow,               \* "page" (POST /search) or "api" (POST /api/search)
    body,               \* the inbound request's form / JSON body
    query,              \* the handler's local `query`
    search_results,     \* the handler's local `search_results`
    idx,                \* index of the next raw result the loop will process
    enhanced_results,   \* the handler's local `enhanced_results`
    response,           \* what the handler returned
    calls,              \* outbound calls made for this request, in order
    provider,           \* what the search provider answered in this request
    faults,             \* abnormal language-model outcomes seen in this request
    unit,               \* which single operation a unit specification exercises
    arg,                \* the input of that operation
    ret,                \* what it returned
    net                 \* the outbound calls it made

vars == <<parallel_api_key, openai_client, pc, flow, body, query,
          search_results, idx, enhanced_results, response, calls,
          provider, faults, unit, arg, ret, net>>

requestVars == <<pc, flow, body, query, search_results, idx,
                 enhanced_results, response, calls, provider, faults>>

unitVars == <<unit, arg, ret, net>>

NoValue == [none |-> TRUE]

(***************************************************************************)
(* Text helpers: Python's str operations on character sequences.           *)
(***************************************************************************)
Rep(c, n) == [i \in 1..n |-> c]

Whitespace == {" ", "\t", "\n"}

RECURSIVE LStrip(_)
LStrip(s) ==
    IF s # <<>> /\ Head(s) \in Whitespace THEN LStrip(Tail(s)) ELSE s

RECURSIVE RStrip(_)
RStrip(s) ==
    IF s # <<>> /\ s[Len(s)] \in Whitespace
    THEN RStrip(SubSeq(s, 1, Len(s) - 1))
    ELSE s

\* str.strip()
Strip(s) == RStrip(LStrip(s))

\* s[:n]
Prefix(s, n) == SubSeq(s, 1, IF Len(s) < n THEN Len(s) ELSE n)

UpperChars == <<"A","B","C","D","E","F","G","H","I","J","K","L","M","N","O","P","Q","R","S","T","U","V","W","X","Y","Z">>
LowerChars == <<"a","b","c","d","e","f","g","h","i","j","k","l","m","n","o","p","q","r","s","t","u","v","w","x","y","z">>

LowerChar(c) ==
    IF \E i \in 1..Len(UpperChars) : UpperChars[i] = c
    THEN LowerChars[CHOOSE i \in 1..Len(UpperChars) : UpperChars[i] = c]
    ELSE c

UpperChar(c) ==
    IF \E i \in 1..Len(LowerChars) : LowerChars[i] = c
    THEN UpperChars[CHOOSE i \in 1..Len(LowerChars) : LowerChars[i] = c]
    ELSE c

\* str.lower() / str.upper()
Lower(s) == [i \in 1..Len(s) |-> LowerChar(s[i])]
Upper(s) == [i \in 1..Len(s) |-> UpperChar(s[i])]

\* `needle in hay`: scan the start positions left to right
RECURSIVE ContainsFrom(_, _, _)
ContainsFrom(needle, hay, k) ==
    IF k + Len(needle) - 1 > Len(hay) THEN FALSE
    ELSE IF SubSeq(hay, k, k + Len(needle) - 1) = needle THEN TRUE
    ELSE ContainsFrom(needle, hay, k + 1)

Contains(needle, hay) == ContainsFrom(needle, hay, 1)

(***************************************************************************)
(* ParallelSearchService._determine_source_type                            *)
(***************************************************************************)
\* the dict literal, in insertion order (the order `.items()` iterates in)
medical_domains ==
  <<
    [domain |-> <<"p","u","b","m","e","d",".","n","c","b","i",".","n","l","m",".","n","i","h",".","g","o","v">>,
     source_name |-> "PubMed"],
    [domain |-> <<"n","e","j","m",".","o","r","g">>,
     source_name |-> "NEJM"],
    [domain |-> <<"j","a","m","a","n","e","t","w","o","r","k",".","c","o","m">>,
     source_name |-> "JAMA"],
    [domain |-> <<"t","h","e","l","a","n","c","e","t",".","c","o","m">>,
     source_name |-> "The Lancet"],
    [domain |-> <<"b","m","j",".","c","o","m">>,
     source_name |-> "BMJ"],
    [domain |-> <<"n","a","t","u","r","e",".","c","o","m">>,
     source_name |-> "Nature"],
    [domain |-> <<"s","c","i","e","n","c","e",".","o","r","g">>,
     source_name |-> "Science"],
    [domain |-> <<"c","o","c","h","r","a","n","e","l","i","b","r","a","r","y",".","c","o","m">>,
     source_name |-> "Cochrane"],
    [domain |-> <<"u","p","t","o","d","a","t","e",".","c","o","m">>,
     source_name |-> "UpToDate"],
    [domain |-> <<"w","h","o",".","i","n","t">>,
     source_name |-> "WHO"],
    [domain |-> <<"c","d","c",".","g","o","v">>,
     source_name |-> "CDC"],
    [domain |-> <<"n","i","h",".","g","o","v">>,
     source_name |-> "NIH"],
    [domain |-> <<"m","a","y","o","c","l","i","n","i","c",".","o","r","g">>,
     source_name |-> "Mayo Clinic"]
  >>

GenericSourceType == "Medical Literature"

\* the for loop over medical_domains.items(), from entry k on
RECURSIVE source_type_scan(_, _, _)
source_type_scan(table, url_lower, k) ==
    IF k > Len(table) THEN GenericSourceType
    ELSE IF Contains(table[k].domain, url_lower) THEN table[k].source_name
    ELSE source_type_scan(table, url_lower, k + 1)

\* a slip: the URL is matched as given, without lower-casing
determine_source_type_case_sensitive(url) ==
    source_type_scan(medical_domains, url, 1)

\* a slip: the table is walked from its last entry to its first
determine_source_type_reversed(url) ==
    source_type_scan([i \in 1..Len(medical_domains) |->
                         medical_domains[Len(medical_domains) + 1 - i]],
                     Lower(url), 1)

determine_source_type(url) ==
    source_type_scan(medical_domains, Lower(url), 1)

(***************************************************************************)
(* The display truncation of app.py's search handler                       *)
(***************************************************************************)
DisplayLimit == 500

EllipsisMarker == <<".", ".", ".">>

\* a slip: `>=` for `>`, so content of exactly 500 characters gets the marker
display_content_off_by_one(content) ==
    IF Len(content) >= DisplayLimit
    THEN Prefix(content, DisplayLimit) \o EllipsisMarker
    ELSE content

\* result['content'][:500] + '...' if len(result['content']) > 500 else result['content']
display_content(content) ==
    IF Len(content) > DisplayLimit
    THEN Prefix(content, DisplayLimit) \o EllipsisMarker
    ELSE content

(***************************************************************************)
(* OpenAIService                                                           *)
(*                                                                         *)
(* A Python value that may or may not be a str is tagged: PyStr(chars) or  *)
(* PyNone.  What a function call does is an outcome: it returns a value or *)
(* raises, and `llm_calls` counts the chat-completion requests it sent.    *)
(*                                                                         *)
(* The outcome of self.client.chat.completions.create is a reply:          *)
(*   [kind |-> "call_raises"]     the request raised (network, API error)  *)
(*   [kind |-> "no_choices"]      response.choices is empty                *)
(*   [kind |-> "content_none"]    message.content is None                  *)
(*   [kind |-> "content", content |-> chars]          (summary, questions) *)
(*   [kind |-> "content_invalid_json", ...]           (credibility)        *)
(*   [kind |-> "content_json", parsed |-> value]      (credibility)        *)
(***************************************************************************)
PyStr(s) == [py |-> "str", s |-> s]
PyNone == [py |-> "NoneType"]

Return(v, n) == [raised |-> FALSE, value |-> v, llm_calls |-> n]
Raise(cls, n) == [raised |-> TRUE, cls |-> cls, llm_calls |-> n]

SummaryUnavailable ==
    <<"S","u","m","m","a","r","y"," ","u","n","a","v","a","i","l","a","b","l","e">>
SummaryNotConfigured ==
    <<"S","u","m","m","a","r","y"," ","u","n","a","v","a","i","l","a","b","l","e"," ","-"," ","O","p","e","n","A","I"," ","s","e","r","v","i","c","e"," ","n","o","t"," ","c","o","n","f","i","g","u","r","e","d">>
SummaryProcessingError ==
    <<"S","u","m","m","a","r","y"," ","u","n","a","v","a","i","l","a","b","l","e"," ","d","u","e"," ","t","o"," ","p","r","o","c","e","s","s","i","n","g"," ","e","r","r","o","r">>
CredibilityUnavailable ==
    <<"C","r","e","d","i","b","i","l","i","t","y"," ","a","s","s","e","s","s","m","e","n","t"," ","u","n","a","v","a","i","l","a","b","l","e">>
UnknownText ==
    <<"U","n","k","n","o","w","n">>

\* the statements inside generate_medical_summary's try block
generate_medical_summary_try(client, content, query_context, reply) ==
    IF ~client THEN Return(SummaryNotConfigured, 0)
    ELSE IF content.py # "str" THEN Raise("TypeError", 0)   \* content[:3000]
    ELSE IF reply.kind = "call_raises" THEN Raise("APIError", 1)
    ELSE IF reply.kind = "no_choices" THEN Raise("IndexError", 1)
    ELSE IF reply.kind = "content_none" THEN Return(Strip(SummaryUnavailable), 1)
    ELSE IF reply.kind = "content"
         THEN Return(Strip(IF reply.content = <<>> THEN SummaryUnavailable
                                                   ELSE reply.content), 1)
    ELSE Return(SummaryUnavailable, 1)      \* content that is no str

\* a slip: no `except Exception` around the call
generate_medical_summary_uncaught(client, content, query_context, reply) ==
    generate_medical_summary_try(client, content, query_context, reply)

\* a slip: the client is used without the `if not self.client` guard
generate_medical_summary_unguarded(client, content, query_context, reply) ==
    LET o == generate_medical_summary_try(TRUE, content, query_context, reply)
    IN  IF o.raised THEN Return(SummaryProcessingError, o.llm_calls) ELSE o

\* a slip: a failed request is sent a second time before giving up
generate_medical_summary_retry(client, content, query_context, reply) ==
    LET o == generate_medical_summary_try(client, content, query_context, reply)
    IN  IF o.raised
        THEN Return(SummaryProcessingError,
                    IF o.llm_calls > 0 THEN o.llm_calls + 1 ELSE 0)
        ELSE o

generate_medical_summary(client, content, query_context, reply) ==
    LET o == generate_medical_summary_try(client, content, query_context, reply)
    IN  IF o.raised THEN Return(SummaryProcessingError, o.llm_calls) ELSE o

\* digits of a natural number
DigitChars == <<"0","1","2","3","4","5","6","7","8","9">>

RECURSIVE NatToChars(_)
NatToChars(n) ==
    IF n < 10 THEN <<DigitChars[n + 1]>>
    ELSE NatToChars(n \div 10) \o <<DigitChars[(n % 10) + 1]>>

\* f"{confidence:.1%}" for a confidence given in thousandths
FormatPercent1(thousandths) ==
    NatToChars(thousandths \div 10) \o <<".">>
        \o NatToChars(thousandths % 10) \o <<"%">>

DefaultConfidence == 500    \* result.get('confidence', 0.5), in thousandths

\* the statements inside assess_medical_credibility's try block
assess_medical_credibility_try(client, source_info, reply) ==
    IF ~client THEN Return(CredibilityUnavailable, 0)
    ELSE IF "notdict" \in DOMAIN source_info
         THEN Raise("AttributeError", 0)                    \* source_info.get
    ELSE IF reply.kind = "call_raises" THEN Raise("APIError", 1)
    ELSE IF reply.kind = "no_choices" THEN Raise("IndexError", 1)
    ELSE IF reply.kind = "content_none" THEN Return(CredibilityUnavailable, 1)
    ELSE IF reply.kind = "content_empty" THEN Return(CredibilityUnavailable, 1)
    ELSE IF reply.kind = "content_invalid_json"
         THEN Raise("JSONDecodeError", 1)                   \* json.loads
    ELSE IF reply.kind = "content_json"
         THEN LET result == reply.parsed IN
              IF result.type # "object"
              THEN Raise("AttributeError", 1)               \* result.get
              ELSE LET credibility_level ==
                           IF "credibility_level" \in DOMAIN result.fields
                           THEN result.fields.credibility_level
                           ELSE UnknownText
                       confidence ==
                           IF "confidence" \in DOMAIN result.fields
                           THEN result.fields.confidence
                           ELSE [type |-> "number",
                                 thousandths |-> DefaultConfidence]
                   IN  IF confidence.type = "string"
                       THEN Raise("ValueError", 1)          \* :.1% on a str
                       ELSE IF confidence.type # "number"
                       THEN Raise("TypeError", 1)           \* :.1% on None
                       ELSE Return(credibility_level \o <<" ", "(">>
                                     \o FormatPercent1(confidence.thousandths)
                                     \o <<" ","c","o","n","f","i","d","e","n","c","e",")">>,
                                   1)
    ELSE Raise("TypeError", 1)

\* a slip: no `except Exception` around the call and the parse
assess_medical_credibility_uncaught(client, source_info, reply) ==
    assess_medical_credibility_try(client, source_info, reply)

assess_medical_credibility(client, source_info, reply) ==
    LET o == assess_medical_credibility_try(client, source_info, reply)
    IN  IF o.raised THEN Return(CredibilityUnavailable, o.llm_calls) ELSE o

\* str.split(sep) for a one-character separator
RECURSIVE SplitFrom(_, _, _, _)
SplitFrom(s, sep, k, cur) ==
    IF k > Len(s) THEN <<cur>>
    ELSE IF s[k] = sep THEN <<cur>> \o SplitFrom(s, sep, k + 1, <<>>)
    ELSE SplitFrom(s, sep, k + 1, Append(cur, s[k]))

Split(s, sep) == SplitFrom(s, sep, 1, <<>>)

\* str.strip(chars)
RECURSIVE StripChars(_, _)
StripChars(s, chars) ==
    IF s # <<>> /\ Head(s) \in chars THEN StripChars(Tail(s), chars)
    ELSE IF s # <<>> /\ s[Len(s)] \in chars
         THEN StripChars(SubSeq(s, 1, Len(s) - 1), chars)
    ELSE s

\* [q.strip('- ').strip() for q in questions if q.strip()]
RECURSIVE CleanQuestions(_)
CleanQuestions(questions) ==
    IF questions = <<>> THEN <<>>
    ELSE (IF Strip(Head(questions)) # <<>>
          THEN <<Strip(StripChars(Head(questions), {"-", " "}))>>
          ELSE <<>>) \o CleanQuestions(Tail(questions))

\* the statements inside generate_clinical_questions's try block
generate_clinical_questions_try(client, topic, reply) ==
    IF ~client THEN Return(<<>>, 0)
    ELSE IF reply.kind = "call_raises" THEN Raise("APIError", 1)
    ELSE IF reply.kind = "no_choices" THEN Raise("IndexError", 1)
    ELSE IF reply.kind = "content_none" THEN Return(<<>>, 1)
    ELSE IF reply.kind = "content"
         THEN IF reply.content = <<>> THEN Return(<<>>, 1)
              ELSE Return(CleanQuestions(Split(Strip(reply.content), "\n")), 1)
    ELSE Raise("AttributeError", 1)

generate_clinical_questions(client, topic, reply) ==
    LET o == generate_clinical_questions_try(client, topic, reply)
    IN  IF o.raised THEN Return(<<>>, o.llm_calls) ELSE o

(***************************************************************************)
(* ParallelSearchService.search_medical_literature                         *)
(*                                                                         *)
(* The outcome of requests.post is `post`:                                 *)
(*   [kind |-> "timeout"]         requests.exceptions.Timeout              *)
(*   [kind |-> "connection"]      requests.exceptions.ConnectionError      *)
(*   [kind |-> "response", status_code |-> n, json |-> data]               *)
(* and data, what response.json() gives, is                                *)
(*   [type |-> "invalid", error_cls |-> c]   the body is no JSON; c is the *)
(*        class raised: requests.exceptions.JSONDecodeError in current     *)
(*        releases of requests, a plain ValueError in older ones           *)
(*   [type |-> "array"]                      JSON, but no object           *)
(*   [type |-> "object", fields |-> r]       r may lack the `results` key  *)
(* A provider record is a TLA+ record with any of the fields title, url,   *)
(* excerpts, content, date, score; [notdict |-> TRUE] is a list element    *)
(* that is no JSON object.                                                 *)
(***************************************************************************)
SReturn(v, n) == [raised |-> FALSE, value |-> v, http_calls |-> n]
SRaise(cls, msg, n) == [raised |-> TRUE, cls |-> cls, msg |-> msg, http_calls |-> n]

\* issubclass(cls, base) for the exception classes that occur
IsInstance(cls, base) ==
    \/ cls = base
    \/ base = "Exception"
    \/ base = "RequestException"
         /\ cls \in {"Timeout", "ConnectionError", "RequestsJSONDecodeError"}
    \/ base = "ValueError" /\ cls = "RequestsJSONDecodeError"

\* dict.get(key, default)
Get(d, key, default) == IF key \in DOMAIN d THEN d[key] ELSE default

\* ' '.join(excerpts)
RECURSIVE JoinSpace(_)
JoinSpace(parts) ==
    IF parts = <<>> THEN <<>>
    ELSE IF Len(parts) = 1 THEN parts[1]
    ELSE parts[1] \o <<" ">> \o JoinSpace(Tail(parts))

MinContentLength == 50

DefaultScore == 0

\* lines 62-72: the processed_result built from one provider record
processed_result(result) ==
    LET excerpts == Get(result, "excerpts", <<>>)
        content == IF excerpts # <<>> THEN JoinSpace(excerpts)
                   ELSE Get(result, "content", <<>>)
    IN  [title |-> Get(result, "title", "Medical Literature"),
         url |-> Get(result, "url", <<>>),
         content |-> content,
         source_type |-> determine_source_type(Get(result, "url", <<>>)),
         publication_date |-> Get(result, "date", "Unknown"),
         relevance_score |-> Get(result, "score", DefaultScore)]

\* a slip: `>=` for `>` in the content filter
keep_result_inclusive(processed) ==
    Len(Strip(processed.content)) >= MinContentLength

\* a slip: the length is taken of the content as given, not of its strip()
keep_result_unstripped(processed) ==
    Len(processed.content) > MinContentLength

\* line 75: only results with substantial content are included
keep_result(processed) ==
    Len(Strip(processed.content)) > MinContentLength

\* a slip: a record that cannot be parsed is skipped, the rest is returned
RECURSIVE parse_results_skip_bad(_, _, _)
parse_results_skip_bad(search_results_, k, results) ==
    IF k > Len(search_results_) THEN SReturn(results, 1)
    ELSE IF "notdict" \in DOMAIN search_results_[k]
         THEN parse_results_skip_bad(search_results_, k + 1, results)
    ELSE LET p == processed_result(search_results_[k])
         IN  parse_results_skip_bad(search_results_, k + 1,
                 IF keep_result(p) THEN Append(results, p) ELSE results)

\* lines 60-79: the loop over the provider's records, from record k on
RECURSIVE parse_results(_, _, _)
parse_results(search_results_, k, results) ==
    IF k > Len(search_results_) THEN SReturn(results, 1)
    ELSE IF "notdict" \in DOMAIN search_results_[k]
         THEN SRaise("AttributeError",
                     "'str' object has no attribute 'get'", 1)
    ELSE LET p == processed_result(search_results_[k])
         IN  parse_results(search_results_, k + 1,
                 IF keep_result(p) THEN Append(results, p) ELSE results)

\* the statements inside search_medical_literature's try block
search_medical_literature_try(api_key, query_, post) ==
    IF ~api_key
    THEN SRaise("Exception", "Parallel.ai API key not configured", 0)
    ELSE IF post.kind = "timeout" THEN SRaise("Timeout", "timed out", 1)
    ELSE IF post.kind = "connection"
         THEN SRaise("ConnectionError", "connection failed", 1)
    ELSE IF post.status_code = 200
         THEN LET data == post.json IN
              IF data.type = "invalid"
              THEN SRaise(data.error_cls,
                          "Expecting value: line 1 column 1 (char 0)", 1)
              ELSE IF data.type # "object"
              THEN SRaise("AttributeError",
                          "'list' object has no attribute 'get'", 1)
              ELSE parse_results(Get(data.fields, "results", <<>>), 1, <<>>)
    ELSE IF post.status_code = 401
         THEN SRaise("Exception", "Invalid Parallel.ai API key", 1)
    ELSE IF post.status_code = 429
         THEN SRaise("Exception", "Parallel.ai API rate limit exceeded", 1)
    ELSE SRaise("Exception",
                "Search service error: " \o ToString(post.status_code), 1)

\* a slip: `except RequestException` written above `except Timeout`, so a
\* timeout is reported as a connection failure
search_except_timeout_shadowed(o) ==
    IF ~o.raised THEN o
    ELSE IF IsInstance(o.cls, "RequestException")
         THEN SRaise("Exception",
                     "Unable to connect to search service. Please try again.",
                     o.http_calls)
    ELSE SRaise("Exception", "Search failed: " \o o.msg, o.http_calls)

\* the except clauses, in the order they are written
search_except(o) ==
    IF ~o.raised THEN o
    ELSE IF IsInstance(o.cls, "Timeout")
         THEN SRaise("Exception",
                     "Search request timed out. Please try again with a simpler query.",
                     o.http_calls)
    ELSE IF IsInstance(o.cls, "RequestException")
         THEN SRaise("Exception",
                     "Unable to connect to search service. Please try again.",
                     o.http_calls)
    ELSE SRaise("Exception", "Search failed: " \o o.msg, o.http_calls)

\* a slip: the request is sent before the api_key check
search_medical_literature_post_first(api_key, query_, post) ==
    LET o == search_except(search_medical_literature_try(TRUE, query_, post))
    IN  IF ~api_key
        THEN SRaise("Exception",
                    "Search failed: Parallel.ai API key not configured", 1)
        ELSE o

search_medical_literature(api_key, query_, post) ==
    search_except(search_medical_literature_try(api_key, query_, post))

(***************************************************************************)
(* Inputs                                                                  *)
(***************************************************************************)
MaxRecords == 3         \* provider records in a response of the unit runs
MaxPad == 1             \* whitespace characters around a text

Https == <<"h","t","t","p","s",":","/","/">>
ExampleCom == <<"e","x","a","m","p","l","e",".","c","o","m">>
NotWhoInternal == <<"n","o","t","w","h","o",".","i","n","t","e","r","n","a","l">>
ArticlePath == <<"/","a","r","t","i","c","l","e","/">>
RefNejm == <<"/","?","r","e","f","=","n","e","j","m",".","o","r","g">>
OkText == <<"o","k">>
HighText == <<"H","i","g","h">>

\* hosts a provider record's url is drawn from: known, unknown, upper case
SampleHosts ==
    <<medical_domains[2].domain, ExampleCom, medical_domains[1].domain,
      Upper(medical_domains[12].domain)>>

HostOf(i) == SampleHosts[((i - 1) % Len(SampleHosts)) + 1]

\* a text of n non-blank characters with l blanks before and t after it
Padded(l, n, t) == Rep(" ", l) \o Rep("x", n) \o Rep(" ", t)

\* the i-th well-formed provider record, with the given content
RecordWith(i, content) ==
    [title |-> "Result " \o ToString(i),
     url |-> Https \o HostOf(i) \o ArticlePath \o NatToChars(i),
     content |-> content,
     date |-> "2024-0" \o ToString(i),
     score |-> i]

GoodRecord(i) == RecordWith(i, Padded(0, MinContentLength + i, 0))

\* the ways the i-th record of a response can differ from GoodRecord(i)
RecordVariants(i) ==
    {GoodRecord(i), [notdict |-> TRUE], [url |-> Https \o HostOf(i)]}
    \cup {RecordWith(i, Padded(l, n, t)) :
            l \in 0..MaxPad, t \in 0..MaxPad,
            n \in {0, MinContentLength - 1, MinContentLength}}
    \cup {[title |-> "Excerpts " \o ToString(i),
           excerpts |-> <<Padded(0, n, 0), Padded(0, MinContentLength \div 2, 0)>>,
           content |-> Padded(0, 2 * MinContentLength, 0)] :
            n \in {MinContentLength \div 2 - 1, MinContentLength \div 2}}

\* responses of n records in which at most record k is not GoodRecord(k)
RecordLists ==
    {<<>>}
    \cup {[i \in 1..n |-> GoodRecord(i)] : n \in 1..MaxRecords}
    \cup UNION {UNION {{[i \in 1..n |-> IF i = k THEN v ELSE GoodRecord(i)] :
                            v \in RecordVariants(k)} :
                       k \in 1..n} :
                n \in 1..MaxRecords}

HttpResponse(status, data) ==
    [kind |-> "response", status_code |-> status, json |-> data]

NoJson == [type |-> "invalid", error_cls |-> "RequestsJSONDecodeError"]

FailureStatuses == {401, 429, 400, 404, 500, 503}

FailurePosts ==
    {[kind |-> "timeout"], [kind |-> "connection"]}
    \cup {HttpResponse(st, NoJson) : st \in FailureStatuses}

UnitPosts ==
    FailurePosts
    \cup {HttpResponse(200, [type |-> "invalid", error_cls |-> c]) :
            c \in {"RequestsJSONDecodeError", "ValueError"}}
    \cup {HttpResponse(200, [type |-> "array"]),
          HttpResponse(200, [type |-> "object", fields |-> [status |-> "ok"]])}
    \cup {HttpResponse(200, [type |-> "object", fields |-> [results |-> rs]]) :
            rs \in RecordLists}

MaxQueryLength == 200

UnitQueries == {<<>>, <<"f","l","u">>, Rep("q", MaxQueryLength)}

SummaryReplies ==
    {[kind |-> "call_raises"], [kind |-> "no_choices"], [kind |-> "content_none"]}
    \cup {[kind |-> "content", content |-> Rep(" ", l) \o body_ \o Rep("\n", t)] :
            l \in 0..MaxPad, t \in 0..MaxPad, body_ \in {<<>>, OkText}}

Confidences ==
    {[type |-> "number", thousandths |-> n] : n \in {0, 5, 850, 1000}}
    \cup {[type |-> "string"], [type |-> "null"]}

CredibilityReplies ==
    {[kind |-> "call_raises"], [kind |-> "no_choices"], [kind |-> "content_none"],
     [kind |-> "content_empty"], [kind |-> "content_invalid_json"],
     [kind |-> "content_json", parsed |-> [type |-> "array"]],
     [kind |-> "content_json",
      parsed |-> [type |-> "object", fields |-> [reasoning |-> "none given"]]],
     [kind |-> "content_json",
      parsed |-> [type |-> "object", fields |-> [credibility_level |-> HighText]]]}
    \cup {[kind |-> "content_json",
           parsed |-> [type |-> "object",
                       fields |-> [credibility_level |-> HighText,
                                   confidence |-> c]]] : c \in Confidences}

QuestionReplies ==
    {[kind |-> "call_raises"], [kind |-> "no_choices"], [kind |-> "content_none"],
     [kind |-> "content", content |-> <<>>],
     [kind |-> "content", content |-> <<"-"," ","a","?","\n","\n","b","?"," ","\n">>],
     [kind |-> "content", content |-> <<" ","a","?">>]}

UnitContents ==
    {PyNone} \cup {PyStr(Padded(l, n, 0)) : l \in 0..MaxPad, n \in {0, 3}}

UnitSources ==
    {[notdict |-> TRUE], [title |-> "Untitled"]}
    \cup {processed_result(GoodRecord(i)) : i \in 1..MaxRecords}

(***************************************************************************)
(* Construction and the idle state of the request handling                 *)
(***************************************************************************)
\* ParallelSearchService.__init__ / OpenAIService.__init__: a missing
\* environment variable is logged, never raised
Construct ==
    /\ parallel_api_key \in BOOLEAN
    /\ openai_client \in BOOLEAN

Idle ==
    /\ pc = "idle"
    /\ flow = "none"
    /\ body = NoValue
    /\ query = <<>>
    /\ search_results = <<>>
    /\ idx = 1
    /\ enhanced_results = <<>>
    /\ response = NoValue
    /\ calls = <<>>
    /\ provider = NoValue
    /\ faults = <<>>

(***************************************************************************)
(* SpecClients: one call of one client operation                           *)
(***************************************************************************)
InitClients ==
    /\ Construct
    /\ Idle
    /\ unit = "clients"
    /\ arg = NoValue
    /\ ret = NoValue
    /\ net = 0

CallSearch ==
    /\ unit = "clients" /\ ret = NoValue
    /\ \E q \in UnitQueries, post \in UnitPosts :
         LET o == search_medical_literature(parallel_api_key, q, post) IN
         /\ arg' = [op |-> "search", query |-> q, post |-> post]
         /\ ret' = o
         /\ net' = o.http_calls
    /\ UNCHANGED <<parallel_api_key, openai_client, unit, requestVars>>

CallSummary ==
    /\ unit = "clients" /\ ret = NoValue
    /\ \E content \in UnitContents, q \in {<<>>} \cup UnitQueries,
          reply \in SummaryReplies :
         LET o == generate_medical_summary(openai_client, content, q, reply) IN
         /\ arg' = [op |-> "summary", content |-> content, query |-> q,
                    reply |-> reply]
         /\ ret' = o
         /\ net' = o.llm_calls
    /\ UNCHANGED <<parallel_api_key, openai_client, unit, requestVars>>

CallCredibility ==
    /\ unit = "clients" /\ ret = NoValue
    /\ \E source_info \in UnitSources, reply \in CredibilityReplies :
         LET o == assess_medical_credibility(openai_client, source_info, reply) IN
         /\ arg' = [op |-> "credibility", source_info |-> source_info,
                    reply |-> reply]
         /\ ret' = o
         /\ net' = o.llm_calls
    /\ UNCHANGED <<parallel_api_key, openai_client, unit, requestVars>>

CallQuestions ==
    /\ unit = "clients" /\ ret = NoValue
    /\ \E topic \in UnitQueries, reply \in QuestionReplies :
         LET o == generate_clinical_questions(openai_client, topic, reply) IN
         /\ arg' = [op |-> "questions", topic |-> topic, reply |-> reply]
         /\ ret' = o
         /\ net' = o.llm_calls
    /\ UNCHANGED <<parallel_api_key, openai_client, unit, requestVars>>

NextClients == CallSearch \/ CallSummary \/ CallCredibility \/ CallQuestions

SpecClients == InitClients /\ [][NextClients]_vars

Called(op) == unit = "clients" /\ ret # NoValue /\ arg.op = op

(***************************************************************************)
(* Claims about the clients, checked under SpecClients                     *)
(***************************************************************************)
\* a Python str: a sequence of one-character strings
IsStr(v) == v \in Seq(STRING) /\ \A i \in 1..Len(v) : Len(v[i]) = 1

\* the language-model reply cannot be turned into a credibility line
CredibilityParseFails(reply) ==
    \/ reply.kind = "content_invalid_json"
    \/ /\ reply.kind = "content_json"
       /\ \/ reply.parsed.type # "object"
          \/ /\ "confidence" \in DOMAIN reply.parsed.fields
             /\ reply.parsed.fields.confidence.type # "number"

\* C3: generate_medical_summary and assess_medical_credibility never raise:
\* whatever the input and the outcome of the language-model call, each
\* returns a string, and when the call fails or the reply cannot be parsed
\* that string is the operation's fixed sentinel.
C3_EnrichmentNeverRaises ==
    (Called("summary") \/ Called("credibility")) =>
        /\ ~ret.raised
        /\ IsStr(ret.value)
        /\ (Called("summary") /\ openai_client /\ arg.content.py = "str"
              /\ arg.reply.kind = "call_raises")
             => ret.value = SummaryProcessingError
        /\ (Called("credibility") /\ openai_client
              /\ "notdict" \notin DOMAIN arg.source_info
              /\ (arg.reply.kind = "call_raises"
                    \/ CredibilityParseFails(arg.reply)))
             => ret.value = CredibilityUnavailable

C3_Witness ==
    /\ Called("credibility")
    /\ openai_client
    /\ arg.reply.kind = "content_json"
    /\ CredibilityParseFails(arg.reply)
    /\ ret.value = CredibilityUnavailable
    /\ net = 1

\* the failure condition a search call runs into
Condition(api_key, post) ==
    IF ~api_key THEN "missing_credentials"
    ELSE IF post.kind = "timeout" THEN "timeout"
    ELSE IF post.kind = "connection" THEN "connection"
    ELSE IF post.status_code = 200 THEN "ok"
    ELSE IF post.status_code = 401 THEN "http_401"
    ELSE IF post.status_code = 429 THEN "http_429"
    ELSE "http_other"

\* C4: each failure condition of search_medical_literature (missing
\* credentials, 401, 429, another non-200 status, timeout, connection
\* failure) reaches the caller as an exception whose message no other
\* condition produces, and the one for another non-200 status carries the
\* status code.
C4_DistinctSearchErrors ==
    (Called("search") /\ Condition(parallel_api_key, arg.post) # "ok") =>
        /\ ret.raised
        /\ ret.cls = "Exception"
        /\ \A key2 \in BOOLEAN, post2 \in FailurePosts :
             Condition(key2, post2) # Condition(parallel_api_key, arg.post)
               => search_medical_literature(key2, arg.query, post2).msg # ret.msg
        /\ Condition(parallel_api_key, arg.post) = "http_other"
             => ret.msg = "Search failed: Search service error: "
                             \o ToString(arg.post.status_code)

C4_Witness ==
    /\ Called("search")
    /\ Condition(parallel_api_key, arg.post) = "timeout"
    /\ ret.raised
    /\ ret.msg = "Search request timed out. Please try again with a simpler query."

RawResultFields ==
    {"title", "url", "content", "source_type", "publication_date",
     "relevance_score"}

\* every returned record has the six fields and content above the threshold
WellFormedResults(results) ==
    \A i \in 1..Len(results) :
        /\ DOMAIN results[i] = RawResultFields
        /\ Len(Strip(results[i].content)) > MinContentLength

ValidQuery(q) == Strip(q) # <<>> /\ Len(q) <= MaxQueryLength

\* C5 as stated: for a non-empty query of at most 200 characters the search
\* raises or returns a NON-EMPTY sequence of well-formed records.
C5_NeverEmpty ==
    (Called("search") /\ ValidQuery(arg.query)) =>
        \/ ret.raised
        \/ ret.value # <<>> /\ WellFormedResults(ret.value)

\* C5, amended: for a non-empty query of at most 200 characters the search
\* raises an Exception carrying a message, or returns a possibly empty
\* sequence of records, each with all six fields and with content whose
\* stripped length is above 50.
C5_WellFormedOrRaises ==
    (Called("search") /\ ValidQuery(arg.query)) =>
        \/ ret.raised /\ ret.cls = "Exception" /\ Len(ret.msg) > 0
        \/ ~ret.raised /\ WellFormedResults(ret.value)

C5_Witness ==
    /\ Called("search")
    /\ ValidQuery(arg.query)
    /\ ~ret.raised
    /\ ret.value = <<>>
    /\ Len(arg.post.json.fields.results) = 1

\* C8: with a credential absent the client makes no outbound call:
\* the search raises its configuration error, the summary and the
\* credibility assessment return their fixed strings and the clinical
\* questions are an empty sequence.
C8_NoCredentialNoCall ==
    /\ (Called("search") /\ ~parallel_api_key) =>
          /\ ret.raised
          /\ ret.msg = "Search failed: Parallel.ai API key not configured"
          /\ net = 0
    /\ (Called("summary") /\ ~openai_client) =>
          ~ret.raised /\ ret.value = SummaryNotConfigured /\ net = 0
    /\ (Called("credibility") /\ ~openai_client) =>
          ~ret.raised /\ ret.value = CredibilityUnavailable /\ net = 0
    /\ (Called("questions") /\ ~openai_client) =>
          ~ret.raised /\ ret.value = <<>> /\ net = 0

C8_Witness ==
    /\ Called("search")
    /\ ~parallel_api_key
    /\ ~openai_client
    /\ arg.post.kind = "response" /\ arg.post.status_code = 200
    /\ ret.raised
    /\ net = 0

(***************************************************************************)
(* SpecSourceType: _determine_source_type applied to one URL               *)
(***************************************************************************)
SampleUrlHosts ==
    {medical_domains[i].domain : i \in 1..Len(medical_domains)}
    \cup {ExampleCom, NotWhoInternal}

SampleUrls ==
    {<<>>}
    \cup {pre \o host \o suf :
            pre \in {<<>>, Https},
            host \in SampleUrlHosts \cup {Upper(h) : h \in SampleUrlHosts},
            suf \in {<<>>, ArticlePath, RefNejm}}

InitSourceType ==
    /\ Construct
    /\ Idle
    /\ unit = "source_type"
    /\ arg \in {[url |-> u] : u \in SampleUrls}
    /\ ret = NoValue
    /\ net = 0

ApplySourceType ==
    /\ unit = "source_type" /\ ret = NoValue
    /\ ret' = [value |-> determine_source_type(arg.url)]
    /\ UNCHANGED <<parallel_api_key, openai_client, unit, arg, net, requestVars>>

NextSourceType == ApplySourceType

SpecSourceType == InitSourceType /\ [][NextSourceType]_vars

\* needle occurs in hay at some position
IsSubstring(needle, hay) ==
    \E k \in 1..(Len(hay) - Len(needle) + 1) :
        \A j \in 1..Len(needle) : hay[k + j - 1] = needle[j]

\* the table entries whose domain the lower-cased URL contains
MatchingEntries(url) ==
    {i \in 1..Len(medical_domains) :
        IsSubstring(medical_domains[i].domain, Lower(url))}

\* C9: _determine_source_type returns the label of the first table entry,
\* in table order, whose domain the lower-cased URL contains, and
\* 'Medical Literature' when it contains none; a URL that contains
\* 'pubmed.ncbi.nlm.nih.gov' is 'PubMed', not 'NIH'.
C9_SourceTypeFirstMatch ==
    (unit = "source_type" /\ ret # NoValue) =>
        LET m == MatchingEntries(arg.url) IN
        /\ m = {} => ret.value = "Medical Literature"
        /\ m # {} =>
             \E i \in m : /\ \A j \in m : i <= j
                          /\ ret.value = medical_domains[i].source_name
        /\ 1 \in m => ret.value = "PubMed"

C9_Witness ==
    /\ unit = "source_type"
    /\ ret # NoValue
    /\ arg.url # Lower(arg.url)
    /\ {1, 2, 12} \subseteq MatchingEntries(arg.url)
    /\ ret.value = "PubMed"

(***************************************************************************)
(* SpecDisplay: the display truncation applied to one content, twice       *)
(***************************************************************************)
TruncAround == 4        \* content lengths within this distance of the limit

SampleLengths ==
    {0, 1} \cup {n \in (DisplayLimit - TruncAround)..(DisplayLimit + TruncAround) : n >= 0}

SampleContents ==
    {Rep(c, n) : c \in {"x", ".", " "}, n \in SampleLengths}
    \cup {[i \in 1..n |-> DigitChars[(i % 10) + 1]] : n \in SampleLengths}

InitDisplay ==
    /\ Construct
    /\ Idle
    /\ unit = "display"
    /\ arg \in {[content |-> c] : c \in SampleContents}
    /\ ret = NoValue
    /\ net = 0

DisplayOnce ==
    /\ unit = "display" /\ ret = NoValue
    /\ ret' = [shown |-> <<display_content(arg.content)>>]
    /\ UNCHANGED <<parallel_api_key, openai_client, unit, arg, net, requestVars>>

DisplayAgain ==
    /\ unit = "display" /\ ret # NoValue /\ Len(ret.shown) = 1
    /\ ret' = [shown |-> Append(ret.shown, display_content(ret.shown[1]))]
    /\ UNCHANGED <<parallel_api_key, openai_client, unit, arg, net, requestVars>>

NextDisplay == DisplayOnce \/ DisplayAgain

SpecDisplay == InitDisplay /\ [][NextDisplay]_vars

\* C10: content of at most 500 characters is displayed unchanged; longer
\* content is displayed as exactly its first 500 characters followed by
\* '...'; truncating a displayed value again returns that same value.
C10_TruncationExactIdempotent ==
    (unit = "display" /\ ret # NoValue) =>
        LET c == arg.content
            d == ret.shown[1]
        IN  /\ Len(c) <= 500 => d = c
            /\ Len(c) > 500 =>
                 /\ Len(d) = 503
                 /\ \A i \in 1..500 : d[i] = c[i]
                 /\ <<d[501], d[502], d[503]>> = <<".", ".", ".">>
            /\ Len(ret.shown) = 2 => ret.shown[2] = d

C10_Witness ==
    /\ unit = "display"
    /\ ret # NoValue
    /\ Len(arg.content) > 500
    /\ Len(ret.shown) = 2
    /\ ret.shown[2] # arg.content

(***************************************************************************)
(* The request handlers of app.py                                          *)
(*                                                                         *)
(* The inbound body is [query |-> chars], [nokey |-> TRUE] (no `query`     *)
(* field), [nojson |-> TRUE] (request.get_json() is None) or               *)
(* [query_not_str |-> TRUE] (a JSON query that is no string).              *)
(*                                                                         *)
(* A call of an OpenAIService method is given the language-model reply     *)
(* and a flag `escapes`: the method raises to the handler.  The methods    *)
(* catch every Exception of their try block, so this is an exception       *)
(* raised while the method's own except clause runs (MemoryError and       *)
(* RecursionError are Exceptions and can be raised by any statement); the  *)
(* guards at app.py lines 71 and 121 exist for it.                         *)
(***************************************************************************)
ApiLimit == 5               \* search_results[:5]
MaxHandlerRecords == 6      \* provider records in a response
MaxFaults == 2              \* abnormal language-model outcomes per request

Redirect(message, category) ==
    [kind |-> "redirect", flash |-> <<message, category>>]

Render(query_, results) ==
    [kind |-> "render", query |-> query_, results |-> results,
     total_results |-> Len(results)]

JsonError(status, message) ==
    [kind |-> "json", status |-> status, error |-> message]

JsonResults(query_, results) ==
    [kind |-> "json", status |-> 200, query |-> query_, results |-> results,
     total_results |-> Len(results)]

SearchCall == [to |-> "search", op |-> "post", result |-> 0]
LlmCall(op, i) == [to |-> "llm", op |-> op, result |-> i]

NormalSummaryReply == [kind |-> "content", content |-> <<" ">> \o OkText \o <<"\n">>]
NormalCredibilityReply ==
    [kind |-> "content_json",
     parsed |-> [type |-> "object",
                 fields |-> [credibility_level |-> HighText,
                             confidence |-> [type |-> "number",
                                             thousandths |-> 850]]]]

HandlerSummaryOutcomes ==
    {[escapes |-> FALSE, reply |-> r] :
        r \in {NormalSummaryReply, [kind |-> "call_raises"],
               [kind |-> "content_none"]}}
    \cup {[escapes |-> TRUE, reply |-> NormalSummaryReply]}

HandlerCredibilityOutcomes ==
    {[escapes |-> FALSE, reply |-> r] :
        r \in {NormalCredibilityReply, [kind |-> "call_raises"],
               [kind |-> "content_invalid_json"]}}
    \cup {[escapes |-> TRUE, reply |-> NormalCredibilityReply]}

IsFault(x) == x.escapes \/ x.reply \notin {NormalSummaryReply, NormalCredibilityReply}

\* the record kept of an abnormal outcome: which call, for which result
Fault(op, i, x) ==
    [op |-> op, result |-> i,
     what |-> IF x.escapes THEN "escapes" ELSE x.reply.kind]

HandlerQueries ==
    {<<>>, <<" ", "\t">>, <<"f","l","u">>,
     Rep("q", MaxQueryLength + 1),
     <<" ">> \o Rep("q", MaxQueryLength) \o <<"\n">>}

HandlerBodies ==
    {[query |-> q] : q \in HandlerQueries}
    \cup {[nokey |-> TRUE], [nojson |-> TRUE], [query_not_str |-> TRUE]}

\* n well-formed records; records beyond the first are filtered out or
\* malformed in the variants
HandlerRecordLists ==
    {[i \in 1..n |-> GoodRecord(i)] : n \in 0..MaxHandlerRecords}
    \cup {<<GoodRecord(1), RecordWith(2, Padded(1, MinContentLength, 1)), GoodRecord(3)>>,
          <<RecordWith(1, Padded(0, DisplayLimit + 1, 0)), GoodRecord(2)>>,
          <<RecordWith(1, Padded(0, MinContentLength, 0))>>,
          <<GoodRecord(1), GoodRecord(2), [notdict |-> TRUE], GoodRecord(4)>>}

HandlerPosts ==
    {[kind |-> "timeout"], [kind |-> "connection"],
     HttpResponse(429, NoJson), HttpResponse(500, NoJson),
     HttpResponse(200, NoJson)}
    \cup {HttpResponse(200, [type |-> "object", fields |-> [results |-> rs]]) :
            rs \in HandlerRecordLists}

Init ==
    /\ Construct
    /\ Idle
    /\ unit = "none"
    /\ arg = NoValue
    /\ ret = NoValue
    /\ net = 0

constructionVars == <<parallel_api_key, openai_client>>

\* a service method as the handler sees it: its outcome, or an exception
ServiceCall(x, outcome) ==
    IF x.escapes
    THEN Raise("Exception", IF openai_client THEN 1 ELSE 0)
    ELSE outcome

\* app.py lines 27-39: the page flow reads and validates the query
PageReceive ==
    /\ pc = "idle"
    /\ \E b \in {x \in HandlerBodies : "nojson" \notin DOMAIN x
                                        /\ "query_not_str" \notin DOMAIN x} :
         LET q == Strip(Get(b, "query", <<>>)) IN
         /\ flow' = "page"
         /\ body' = b
         /\ query' = q
         /\ IF q = <<>>
            THEN /\ response' = Redirect("Please enter a medical question or search term.",
                                         "warning")
                 /\ pc' = "done"
            ELSE IF Len(q) > MaxQueryLength
            THEN /\ response' = Redirect("Your search query is quite long. For better results, try using shorter, more specific medical terms.",
                                         "warning")
                 /\ pc' = "done"
            ELSE /\ response' = response
                 /\ pc' = "search"
    /\ UNCHANGED <<search_results, idx, enhanced_results, calls, provider,
                   faults, constructionVars, unitVars>>

\* app.py lines 41-51: the search call and its two early returns
PageSearch ==
    /\ pc = "search" /\ flow = "page"
    /\ \E post \in HandlerPosts :
         LET o == search_medical_literature(parallel_api_key, query, post) IN
         /\ provider' = post
         /\ calls' = calls \o [i \in 1..o.http_calls |-> SearchCall]
         /\ IF o.raised
            THEN /\ response' = Redirect("Search service is temporarily unavailable. Please try again with a simpler query.",
                                         "error")
                 /\ pc' = "done"
                 /\ UNCHANGED search_results
            ELSE IF o.value = <<>>
            THEN /\ response' = Redirect("No medical literature found for your query. Please try different terms.",
                                         "info")
                 /\ pc' = "done"
                 /\ search_results' = o.value
            ELSE /\ response' = response
                 /\ pc' = "enrich"
                 /\ search_results' = o.value
    /\ UNCHANGED <<flow, body, query, idx, enhanced_results, faults,
                   constructionVars, unitVars>>

\* app.py lines 61-69: the enhanced result of the page flow
page_enhanced_result(result, summary, credibility_score) ==
    [title |-> result.title,
     url |-> result.url,
     content |-> display_content(result.content),
     summary |-> summary,
     credibility_score |-> credibility_score,
     source_type |-> Get(result, "source_type", "Medical Literature"),
     publication_date |-> Get(result, "publication_date", "Unknown")]

\* a slip: the except clause logs the error and leaves the result out
page_except_drop(results, result) == results

\* app.py lines 71-82: the except clause keeps the result, with sentinels
page_except(results, result) ==
    Append(results, page_enhanced_result(result, SummaryUnavailable, UnknownText))

\* app.py lines 55-82: one iteration of the page flow's loop
PageEnrich ==
    /\ pc = "enrich" /\ flow = "page"
    /\ idx <= Len(search_results)
    /\ \E sx \in HandlerSummaryOutcomes, cx \in HandlerCredibilityOutcomes :
         LET result == search_results[idx]
             s == ServiceCall(sx, generate_medical_summary(
                                      openai_client, PyStr(result.content),
                                      query, sx.reply))
             c == ServiceCall(cx, assess_medical_credibility(
                                      openai_client, result, cx.reply))
             used == (IF IsFault(sx) THEN <<Fault("summary", idx, sx)>> ELSE <<>>)
                       \o (IF ~s.raised /\ IsFault(cx)
                           THEN <<Fault("credibility", idx, cx)>> ELSE <<>>)
         IN
         /\ s.raised => cx = [escapes |-> FALSE, reply |-> NormalCredibilityReply]
         /\ openai_client \/ (sx.reply = NormalSummaryReply
                                 /\ cx.reply = NormalCredibilityReply)
         /\ Len(faults \o used) <= MaxFaults
         /\ faults' = faults \o used
         /\ calls' = calls
                \o [i \in 1..s.llm_calls |-> LlmCall("summary", idx)]
                \o (IF s.raised THEN <<>>
                    ELSE [i \in 1..c.llm_calls |-> LlmCall("credibility", idx)])
         /\ enhanced_results' =
                IF s.raised \/ c.raised
                THEN page_except(enhanced_results, result)
                ELSE Append(enhanced_results,
                            page_enhanced_result(result, s.value, c.value))
    /\ idx' = idx + 1
    /\ UNCHANGED <<pc, flow, body, query, search_results, response, provider,
                   constructionVars, unitVars>>

\* app.py lines 84-87
PageRender ==
    /\ pc = "enrich" /\ flow = "page"
    /\ idx > Len(search_results)
    /\ response' = Render(query, enhanced_results)
    /\ pc' = "done"
    /\ UNCHANGED <<flow, body, query, search_results, idx, enhanced_results,
                   calls, provider, faults, constructionVars, unitVars>>

\* app.py lines 98-102, and 131-133 for a body that cannot be read
ApiReceive ==
    /\ pc = "idle"
    /\ \E b \in HandlerBodies :
         /\ flow' = "api"
         /\ body' = b
         /\ IF "nojson" \in DOMAIN b \/ "query_not_str" \in DOMAIN b
            THEN /\ query' = <<>>
                 /\ response' = JsonError(500, "Search service temporarily unavailable")
                 /\ pc' = "done"
            ELSE LET q == Strip(Get(b, "query", <<>>)) IN
                 /\ query' = q
                 /\ IF q = <<>>
                    THEN /\ response' = JsonError(400, "Query parameter is required")
                         /\ pc' = "done"
                    ELSE /\ response' = response
                         /\ pc' = "search"
    /\ UNCHANGED <<search_results, idx, enhanced_results, calls, provider,
                   faults, constructionVars, unitVars>>

\* app.py line 105, and 131-133 when the search raises
ApiSearch ==
    /\ pc = "search" /\ flow = "api"
    /\ \E post \in HandlerPosts :
         LET o == search_medical_literature(parallel_api_key, query, post) IN
         /\ provider' = post
         /\ calls' = calls \o [i \in 1..o.http_calls |-> SearchCall]
         /\ IF o.raised
            THEN /\ response' = JsonError(500, "Search service temporarily unavailable")
                 /\ pc' = "done"
                 /\ UNCHANGED search_results
            ELSE /\ response' = response
                 /\ pc' = "enrich"
                 /\ search_results' = o.value
    /\ UNCHANGED <<flow, body, query, idx, enhanced_results, faults,
                   constructionVars, unitVars>>

\* app.py lines 114-120: the enhanced result of the JSON flow
api_enhanced_result(result, summary, credibility_score) ==
    [title |-> result.title,
     url |-> result.url,
     summary |-> summary,
     credibility_score |-> credibility_score,
     source_type |-> Get(result, "source_type", "Medical Literature")]

\* app.py lines 121-123: the except clause logs the error and continues
api_except(results, result) == results

\* app.py lines 109-123: one iteration of the JSON flow's loop
ApiEnrich ==
    /\ pc = "enrich" /\ flow = "api"
    /\ idx <= Len(Prefix(search_results, ApiLimit))
    /\ \E sx \in HandlerSummaryOutcomes, cx \in HandlerCredibilityOutcomes :
         LET result == Prefix(search_results, ApiLimit)[idx]
             s == ServiceCall(sx, generate_medical_summary(
                                      openai_client, PyStr(result.content),
                                      query, sx.reply))
             c == ServiceCall(cx, assess_medical_credibility(
                                      openai_client, result, cx.reply))
             used == (IF IsFault(sx) THEN <<Fault("summary", idx, sx)>> ELSE <<>>)
                       \o (IF ~s.raised /\ IsFault(cx)
                           THEN <<Fault("credibility", idx, cx)>> ELSE <<>>)
         IN
         /\ s.raised => cx = [escapes |-> FALSE, reply |-> NormalCredibilityReply]
         /\ openai_client \/ (sx.reply = NormalSummaryReply
                                 /\ cx.reply = NormalCredibilityReply)
         /\ Len(faults \o used) <= MaxFaults
         /\ faults' = faults \o used
         /\ calls' = calls
                \o [i \in 1..s.llm_calls |-> LlmCall("summary", idx)]
                \o (IF s.raised THEN <<>>
                    ELSE [i \in 1..c.llm_calls |-> LlmCall("credibility", idx)])
         /\ enhanced_results' =
                IF s.raised \/ c.raised
                THEN api_except(enhanced_results, result)
                ELSE Append(enhanced_results,
                            api_enhanced_result(result, s.value, c.value))
    /\ idx' = idx + 1
    /\ UNCHANGED <<pc, flow, body, query, search_results, response, provider,
                   constructionVars, unitVars>>

\* app.py lines 125-129
ApiRespond ==
    /\ pc = "enrich" /\ flow = "api"
    /\ idx > Len(Prefix(search_results, ApiLimit))
    /\ response' = JsonResults(query, enhanced_results)
    /\ pc' = "done"
    /\ UNCHANGED <<flow, body, query, search_results, idx, enhanced_results,
                   calls, provider, faults, constructionVars, unitVars>>

\* the handler has returned; its locals are gone and the next request starts
\* from the same module-level services
NextRequest ==
    /\ pc = "done"
    /\ pc' = "idle"
    /\ flow' = "none"
    /\ body' = NoValue
    /\ query' = <<>>
    /\ search_results' = <<>>
    /\ idx' = 1
    /\ enhanced_results' = <<>>
    /\ response' = NoValue
    /\ calls' = <<>>
    /\ provider' = NoValue
    /\ faults' = <<>>
    /\ UNCHANGED <<constructionVars, unitVars>>

Next ==
    \/ PageReceive \/ PageSearch \/ PageEnrich \/ PageRender
    \/ ApiReceive \/ ApiSearch \/ ApiEnrich \/ ApiRespond
    \/ NextRequest

Spec == Init /\ [][Next]_vars

(***************************************************************************)
(* Claims about the handlers, checked under Spec                           *)
(***************************************************************************)
\* an enrichment call for result i raised to the handler
Escaped(i) ==
    \E k \in 1..Len(faults) : faults[k].result = i /\ faults[k].what = "escapes"

\* entry e carries the title and the url of raw result r
Carries(e, r) == e.title = r.title /\ e.url = r.url

\* C1: in the page flow the enhanced sequence holds one entry per raw result
\* processed so far, entry i carrying the title and url of raw result i,
\* whatever the enrichment outcomes; a result whose enrichment raised is
\* kept with the summary 'Summary unavailable' and the credibility
\* 'Unknown'; and what is rendered is that sequence, with as many entries
\* as there are raw results.
C1_PageKeepsEveryResult ==
    flow = "page" =>
        /\ pc = "enrich" => Len(enhanced_results) = idx - 1
        /\ Len(enhanced_results) <= Len(search_results)
        /\ \A i \in 1..Len(enhanced_results) :
             /\ Carries(enhanced_results[i], search_results[i])
             /\ Escaped(i) =>
                  /\ enhanced_results[i].summary = SummaryUnavailable
                  /\ enhanced_results[i].credibility_score = UnknownText
        /\ (pc = "done" /\ response.kind = "render") =>
             /\ response.results = enhanced_results
             /\ Len(response.results) = Len(search_results)
             /\ response.total_results = Len(search_results)

C1_Witness ==
    /\ flow = "page"
    /\ pc = "done"
    /\ response.kind = "render"
    /\ Len(search_results) = 3
    /\ Escaped(1)
    /\ ~Escaped(2)
    /\ Len(faults) = 2
    /\ response.results[3].summary = OkText

\* min(5, N)
Processed == IF Len(search_results) < 5 THEN Len(search_results) ELSE 5

\* C2: in the JSON flow the returned results are the enrichments of the
\* first min(5, N) raw results in input order; a result whose enrichment
\* raised is kept, with sentinel values.
C2_ApiKeepsEveryResult ==
    (flow = "api" /\ pc = "done" /\ response.kind = "json"
       /\ response.status = 200) =>
        /\ Len(response.results) = Processed
        /\ \A i \in 1..Len(response.results) :
             Carries(response.results[i], search_results[i])

\* the query of the inbound request, trimmed, is empty or too long
Rejectable ==
    /\ flow \in {"page", "api"}
    /\ "query" \in DOMAIN body
    /\ \/ Strip(body.query) = <<>>
       \/ Len(Strip(body.query)) > 200

\* C6: on both entry points a query that is empty after trimming or longer
\* than 200 characters is rejected before any outbound call.
C6_RejectedBeforeAnyCall ==
    Rejectable => calls = <<>>

\* the search of this request cannot succeed: no credential, no answer, a
\* non-200 status, a body that is no JSON object, or a record that is no
\* JSON object
SearchFails ==
    /\ provider # NoValue
    /\ \/ ~parallel_api_key
       \/ provider.kind # "response"
       \/ provider.status_code # 200
       \/ provider.json.type # "object"
       \/ /\ "results" \in DOMAIN provider.json.fields
          /\ \E k \in 1..Len(provider.json.fields.results) :
               "notdict" \in DOMAIN provider.json.fields.results[k]

ErrorResponse ==
    \/ /\ flow = "page"
       /\ response.kind = "redirect"
       /\ response.flash =
            <<"Search service is temporarily unavailable. Please try again with a simpler query.",
              "error">>
    \/ /\ flow = "api"
       /\ response.kind = "json"
       /\ response.status = 500
       /\ "error" \in DOMAIN response
       /\ "results" \notin DOMAIN response

\* C7: when the search raises, for whatever reason, the request ends with
\* the error response and nothing else: the handler holds no raw result,
\* makes no language-model call and returns no results.
C7_NoPartialResults ==
    SearchFails =>
        /\ pc = "done"
        /\ search_results = <<>>
        /\ enhanced_results = <<>>
        /\ \A k \in 1..Len(calls) : calls[k].to # "llm"
        /\ ErrorResponse

C7_Witness ==
    /\ SearchFails
    /\ parallel_api_key
    /\ provider.kind = "response"
    /\ provider.status_code = 200
    /\ provider.json.type = "object"
    /\ "notdict" \in DOMAIN provider.json.fields.results[3]
    /\ flow = "api"
    /\ calls = <<SearchCall>>
    /\ pc = "done"

\* the language-model calls of the log, in the order they were made
LlmCalls == SelectSeq(calls, LAMBDA c : c.to = "llm")

\* the raw results the loop has gone through so far
Done == IF pc = "search" \/ pc = "idle" THEN 0 ELSE idx - 1

\* call a comes strictly before call b in the order summary(1),
\* credibility(1), summary(2), credibility(2), ...
Before(a, b) ==
    \/ a.result < b.result
    \/ a.result = b.result /\ a.op = "summary" /\ b.op = "credibility"

\* C11: the outbound calls of one request are made one after the other and
\* once each: at most one search request, and it is the first call, so it
\* has completed before any language-model call; the language-model calls
\* follow the results in order, the summary call of result i before its
\* credibility call and both before any call for result i+1; no call is
\* repeated, so there are at most 2 language-model calls per result gone
\* through, and at most 2 * min(5, N) in the JSON flow.
C11_SequentialSingleAttempt ==
    flow \in {"page", "api"} =>
        /\ \A k \in 1..Len(calls) : calls[k].to = "search" => k = 1
        /\ LlmCalls # <<>> => calls[1] = SearchCall
        /\ \A j, k \in 1..Len(LlmCalls) :
             j < k => Before(LlmCalls[j], LlmCalls[k])
        /\ \A k \in 1..Len(LlmCalls) :
             LlmCalls[k].result \in 1..Len(search_results)
        /\ Len(LlmCalls) <= 2 * Done
        /\ Len(LlmCalls) <= 2 * Len(search_results)
        /\ flow = "api" => Len(LlmCalls) <= 2 * ApiLimit

C11_Witness ==
    /\ flow = "api"
    /\ pc = "done"
    /\ openai_client
    /\ Len(search_results) = 6
    /\ Len(calls) = 11
    /\ \E k \in 1..Len(faults) :
         faults[k].what = "call_raises" /\ faults[k].op = "summary"
    /\ \E k \in 1..Len(faults) :
         faults[k].what = "escapes" /\ faults[k].op = "credibility"

====
